---- MODULE Spec2Model ----
(***************************************************************************)
(* Macro recorder / player: a model of src/macros/recorder.py (the         *)
(* MacroRecorder capture session, three threads, no lock) and of           *)
(* src/macros/playback.py (the MacroPlayer playback loop and its pause     *)
(* hotkey thread, one condition variable).                                  *)
(*                                                                         *)
(* Time is a discrete clock.  Variables whose name starts with g_ are      *)
(* history variables: they record what happened and are never read by an   *)
(* action that models code.                                                *)
(***************************************************************************)
EXTENDS Integers, Sequences, FiniteSets, TLC

(***************************************************************************)
(* Bounds of the model                                                     *)
(***************************************************************************)
\* the recorder's clock stops advancing at MaxTime
MaxTime == 1
\* the input source starts no new callback once the log holds MaxLog entries
MaxLog == 3

(***************************************************************************)
(* RECORDER  (src/macros/recorder.py)                                      *)
(***************************************************************************)
VARIABLES
    clock,             \* time()
    pressed_keys,      \* self.pressed_keys
    saved_inputs,      \* self.saved_inputs
    start_time,        \* self.start_time
    is_paused,         \* self.is_paused
    pause_start_time,  \* self.pause_start_time (None is NoneT)
    total_pause_time,  \* self.total_pause_time
    exit_event,        \* self.exit_event.is_set()
    pc,                \* where each thread of the recorder stands
    cur,               \* the event the thread's callback is building
    val,               \* the thread's local of elapsed_time(): now, then the result
    todo,              \* cleanup(): keys_to_release not yet visited
    kb_running,        \* the keyboard listener has not been stopped
    ms_running,        \* the mouse listener has not been stopped
    g_active,          \* history: ticks of the clock spent not Paused
    g_paused,          \* history: the pause key was pressed an odd number of times
    g_act,             \* history: the thread's g_active when it sampled time()
    g_log              \* history: per log entry, g_act and is_paused at the append

rvars == <<clock, pressed_keys, saved_inputs, start_time, is_paused,
           pause_start_time, total_pause_time, exit_event, pc, cur, val, todo,
           kb_running, ms_running, g_active, g_paused, g_act, g_log>>

\* the player (src/macros/playback.py)
VARIABLES
    data,              \* the recording handed to play_actions
    index,             \* play_actions: index (from 1), the event being played
    ppc,               \* where the playback thread stands
    in_wait,           \* the playback thread is inside pause_lock.wait()
    p_is_paused,       \* MacroPlayer.is_paused
    pause_lock,        \* the holder of pause_lock, or "none"
    hpc,               \* where the hotkey thread stands in toggle_pause
    was_paused,        \* toggle_pause: was_paused
    hotkey,            \* the pause hotkey is registered with the keyboard library
    sink,              \* the calls made on pyautogui, in order
    slept,             \* handle_delay: slept
    since,             \* time() - start_time of handle_delay's last start_time
    p_exc,             \* the exception that left play_actions, or "none"
    g_dispatched,      \* history: the indices of the events handed to a handler
    g_slept,           \* history: time spent inside the slices of this delay
    g_stop,            \* history: why the event loop ended
    g_steps,           \* history: dispatches and sleep slices begun since the
                       \* player last became Paused
    p_pressed_keys,    \* MacroPlayer.pressed_keys (playback-depreciated.py)
    g_released         \* history: the keys cleanup() has called keyUp for

pvars == <<data, index, ppc, in_wait, p_is_paused, pause_lock, hpc,
           was_paused, hotkey, sink, slept, since, p_exc, g_dispatched,
           g_slept, g_stop, g_steps, p_pressed_keys, g_released>>

vars == <<rvars, pvars>>

\* pynput key objects: a KeyCode with a char, or a member of the Key enum
KeyA == [kind |-> "char", name |-> "a"]
KeyEsc == [kind |-> "special", name |-> "esc"]
KeyPause == [kind |-> "special", name |-> "pause"]
Keys == {KeyA, KeyEsc, KeyPause}

PAUSE_KEY == KeyPause
EXIT_KEY == KeyEsc
IGNORED_KEYS == {}

CLICK == "click"
KEY_DOWN == "keyDown"
KEY_UP == "keyUp"
SCROLL == "scroll"

\* mouse buttons (pynput Button enum), cursor positions and wheel deltas
Buttons == {"left"}
Positions == {<<10, 20>>}
ScrollDirs == {[dx |-> 0, dy |-> 1]}

NoneT == -1
NoPos == <<>>
NoScroll == [dx |-> 0, dy |-> 0]

Threads == {"kb", "ms", "main"}
NoEvent == [type |-> "none", button |-> "", pos |-> NoPos,
            scroll_direction |-> NoScroll, key |-> KeyA]

\* key.char for a character key, str(key) for a special key
stringify_key(key) ==
    IF key.kind = "char" THEN key.name ELSE "Key." \o key.name

\* str(button) of a pynput mouse button
ButtonStr(b) == "Button." \o b

\* the dictionary record_event builds
event_data(event_time, ev) ==
    [time |-> event_time, type |-> ev.type, button |-> ev.button,
     pos |-> ev.pos, scroll_direction |-> ev.scroll_direction]

RecInit ==
    /\ clock = 0
    /\ pressed_keys = {}
    /\ saved_inputs = <<>>
    /\ start_time = 0
    /\ is_paused = FALSE
    /\ pause_start_time = NoneT
    /\ total_pause_time = 0
    /\ exit_event = FALSE
    /\ pc = [t \in Threads |-> IF t = "main" THEN "wait" ELSE "idle"]
    /\ cur = [t \in Threads |-> NoEvent]
    /\ val = [t \in Threads |-> 0]
    /\ todo = {}
    /\ kb_running = TRUE
    /\ ms_running = TRUE
    /\ g_active = 0
    /\ g_paused = FALSE
    /\ g_act = [t \in Threads |-> 0]
    /\ g_log = <<>>

\* the wall clock advances by one unit
Tick ==
    /\ clock < MaxTime
    /\ clock' = clock + 1
    /\ g_active' = IF g_paused THEN g_active ELSE g_active + 1
    /\ UNCHANGED <<pressed_keys, saved_inputs, start_time, is_paused,
                   pause_start_time, total_pause_time, exit_event, pc, cur, val,
                   todo, kb_running, ms_running, g_paused, g_act, g_log>>
    /\ UNCHANGED pvars

\* the input source may start a callback on listener thread t
CanStart(t) ==
    /\ pc[t] = "idle"
    /\ Len(saved_inputs) < MaxLog

\* where a thread continues after the callback returns
Return(t) == IF t = "main" THEN "loop" ELSE "idle"

\* thread t enters record_event(type, self.elapsed_time(), ...) for event ev
Enter(t, ev) ==
    /\ pc' = [pc EXCEPT ![t] = "et_now"]
    /\ cur' = [cur EXCEPT ![t] = ev]

\* every variable of the recorder except pc and cur
RecData == <<clock, pressed_keys, saved_inputs, start_time, is_paused,
             pause_start_time, total_pause_time, exit_event, val, todo,
             kb_running, ms_running, g_active, g_paused, g_act, g_log>>

KeyEvent(type, key) ==
    [type |-> type, button |-> stringify_key(key), pos |-> NoPos,
     scroll_direction |-> NoScroll, key |-> key]

\* toggle_pause, first statement of either branch: the time stamp is taken
toggle_pause ==
    /\ g_paused' = ~g_paused
    /\ IF ~is_paused
       THEN /\ pause_start_time' = clock
            /\ pc' = [pc EXCEPT !["kb"] = "tp_flag"]
            /\ UNCHANGED total_pause_time
       ELSE /\ total_pause_time' =
                  total_pause_time + (clock - pause_start_time)
            /\ pc' = [pc EXCEPT !["kb"] = "tr_clear"]
            /\ UNCHANGED pause_start_time

\* on_press(PAUSE_KEY) on the keyboard listener thread
OnPressPause ==
    /\ pc["kb"] = "idle"
    /\ kb_running
    /\ toggle_pause
    /\ UNCHANGED <<clock, pressed_keys, saved_inputs, start_time, is_paused,
                   exit_event, cur, val, todo, kb_running, ms_running,
                   g_active, g_act, g_log>>
    /\ UNCHANGED pvars

\* toggle_pause, pausing: self.is_paused = True
TogglePauseFlag ==
    /\ pc["kb"] = "tp_flag"
    /\ is_paused' = TRUE
    /\ pc' = [pc EXCEPT !["kb"] = "idle"]
    /\ UNCHANGED <<clock, pressed_keys, saved_inputs, start_time,
                   pause_start_time, total_pause_time, exit_event, cur, val,
                   todo, kb_running, ms_running, g_active, g_paused, g_act,
                   g_log>>
    /\ UNCHANGED pvars

\* toggle_pause, resuming: self.pause_start_time = None
ToggleResumeClear ==
    /\ pc["kb"] = "tr_clear"
    /\ pause_start_time' = NoneT
    /\ pc' = [pc EXCEPT !["kb"] = "tr_flag"]
    /\ UNCHANGED <<clock, pressed_keys, saved_inputs, start_time, is_paused,
                   total_pause_time, exit_event, cur, val, todo, kb_running,
                   ms_running, g_active, g_paused, g_act, g_log>>
    /\ UNCHANGED pvars

\* toggle_pause, resuming: self.is_paused = False
ToggleResumeFlag ==
    /\ pc["kb"] = "tr_flag"
    /\ is_paused' = FALSE
    /\ pc' = [pc EXCEPT !["kb"] = "idle"]
    /\ UNCHANGED <<clock, pressed_keys, saved_inputs, start_time,
                   pause_start_time, total_pause_time, exit_event, cur, val,
                   todo, kb_running, ms_running, g_active, g_paused, g_act,
                   g_log>>
    /\ UNCHANGED pvars

\* a guard of on_press that lets the repeated press of a held key through
PressDiscardedNoHeld(key) ==
    is_paused \/ key \in IGNORED_KEYS

\* the condition under which on_press returns without recording
PressDiscarded(key) ==
    is_paused \/ key \in IGNORED_KEYS \/ key \in pressed_keys

\* on_press(key), key other than the pause key, up to the call of record_event
OnPress(key) ==
    /\ CanStart("kb")
    /\ kb_running
    /\ key # PAUSE_KEY
    /\ IF PressDiscarded(key)
       THEN UNCHANGED <<pressed_keys, pc, cur>>
       ELSE /\ pressed_keys' = pressed_keys \cup {key}
            /\ Enter("kb", KeyEvent(KEY_DOWN, key))
    /\ UNCHANGED <<clock, saved_inputs, start_time, is_paused,
                   pause_start_time, total_pause_time, exit_event, val, todo,
                   kb_running, ms_running, g_active, g_paused, g_act, g_log>>
    /\ UNCHANGED pvars

\* a guard of on_release that lets the release of the pause key through
ReleaseDiscardedNoPause(key) ==
    is_paused \/ key \in IGNORED_KEYS

\* a guard of on_release that does not look at the pause state
ReleaseDiscardedPauseBlind(key) ==
    key \in IGNORED_KEYS \/ key = PAUSE_KEY

\* the condition under which on_release returns without recording
ReleaseDiscarded(key) ==
    is_paused \/ key \in IGNORED_KEYS \/ key = PAUSE_KEY

\* on_release(key) on thread t: the guard and the test `key in pressed_keys`
on_release(t, key) ==
    IF ReleaseDiscarded(key)
    THEN /\ pc' = [pc EXCEPT ![t] = Return(t)]
         /\ UNCHANGED cur
    ELSE /\ pc' = [pc EXCEPT ![t] =
                      IF key \in pressed_keys THEN "rel_rm" ELSE "et_now"]
         /\ cur' = [cur EXCEPT ![t] = KeyEvent(KEY_UP, key)]

\* on_release(key) called by the keyboard listener
OnRelease(key) ==
    /\ CanStart("kb")
    /\ kb_running
    /\ on_release("kb", key)
    /\ UNCHANGED RecData
    /\ UNCHANGED pvars

\* on_release: self.pressed_keys.remove(key); KeyError when the key is gone
RelRemove(t) ==
    /\ pc[t] = "rel_rm"
    /\ IF cur[t].key \in pressed_keys
       THEN /\ pressed_keys' = pressed_keys \ {cur[t].key}
            /\ pc' = [pc EXCEPT ![t] = "et_now"]
       ELSE /\ pc' = [pc EXCEPT ![t] = "crashed"]
            /\ UNCHANGED pressed_keys
    /\ UNCHANGED <<clock, saved_inputs, start_time, is_paused,
                   pause_start_time, total_pause_time, exit_event, cur, val,
                   todo, kb_running, ms_running, g_active, g_paused, g_act,
                   g_log>>
    /\ UNCHANGED pvars

\* a guard of on_click that records the button-down edge as well
ClickDiscardedPausedOnly(pressed) == is_paused

\* the condition under which on_click returns without recording
ClickDiscarded(pressed) == is_paused \/ pressed

\* on_click(x, y, button, pressed) on the mouse listener thread
OnClick(pos, button, pressed) ==
    /\ CanStart("ms")
    /\ ms_running
    /\ IF ClickDiscarded(pressed)
       THEN UNCHANGED <<pc, cur>>
       ELSE Enter("ms", [type |-> CLICK, button |-> ButtonStr(button),
                         pos |-> pos, scroll_direction |-> NoScroll,
                         key |-> KeyA])
    /\ UNCHANGED RecData
    /\ UNCHANGED pvars

\* on_scroll(x, y, dx, dy) on the mouse listener thread
OnScroll(pos, d) ==
    /\ CanStart("ms")
    /\ ms_running
    /\ IF is_paused
       THEN UNCHANGED <<pc, cur>>
       ELSE Enter("ms", [type |-> SCROLL, button |-> "mouse_wheel",
                         pos |-> pos, scroll_direction |-> d, key |-> KeyA])
    /\ UNCHANGED RecData
    /\ UNCHANGED pvars

\* elapsed_time: now = time()
ElapsedNow(t) ==
    /\ pc[t] = "et_now"
    /\ val' = [val EXCEPT ![t] = clock]
    /\ g_act' = [g_act EXCEPT ![t] = g_active]
    /\ pc' = [pc EXCEPT ![t] = "et_flag"]
    /\ UNCHANGED <<clock, pressed_keys, saved_inputs, start_time, is_paused,
                   pause_start_time, total_pause_time, exit_event, cur, todo,
                   kb_running, ms_running, g_active, g_paused, g_log>>
    /\ UNCHANGED pvars

\* elapsed_time: if self.is_paused
ElapsedFlag(t) ==
    /\ pc[t] = "et_flag"
    /\ pc' = [pc EXCEPT ![t] = IF is_paused THEN "et_ps" ELSE "et_tot"]
    /\ UNCHANGED <<cur, RecData>>
    /\ UNCHANGED pvars

\* elapsed_time, paused branch: the read of self.pause_start_time
\* (None - float raises TypeError)
ElapsedPauseStart(t) ==
    /\ pc[t] = "et_ps"
    /\ IF pause_start_time = NoneT
       THEN /\ pc' = [pc EXCEPT ![t] = "crashed"]
            /\ UNCHANGED val
       ELSE /\ pc' = [pc EXCEPT ![t] = "et_tot"]
            /\ val' = [val EXCEPT ![t] = pause_start_time]
    /\ UNCHANGED <<clock, pressed_keys, saved_inputs, start_time, is_paused,
                   pause_start_time, total_pause_time, exit_event, cur, todo,
                   kb_running, ms_running, g_active, g_paused, g_act, g_log>>
    /\ UNCHANGED pvars

\* the value elapsed_time returns from the time stamp it holds
elapsed_time(stamp) == stamp - start_time - total_pause_time

\* elapsed_time: ... - self.start_time - self.total_pause_time
ElapsedTotal(t) ==
    /\ pc[t] = "et_tot"
    /\ val' = [val EXCEPT ![t] = elapsed_time(val[t])]
    /\ pc' = [pc EXCEPT ![t] = "append"]
    /\ UNCHANGED <<clock, pressed_keys, saved_inputs, start_time, is_paused,
                   pause_start_time, total_pause_time, exit_event, cur, todo,
                   kb_running, ms_running, g_active, g_paused, g_act, g_log>>
    /\ UNCHANGED pvars

\* record_event: self.saved_inputs.append(event_data); then, in on_release,
\* self.exit_event.set() when the key is the exit key
record_event(t) ==
    /\ pc[t] = "append"
    /\ saved_inputs' = Append(saved_inputs, event_data(val[t], cur[t]))
    /\ g_log' = Append(g_log, [act |-> g_act[t], paused |-> is_paused])
    /\ exit_event' = (exit_event \/
                        (cur[t].type = KEY_UP /\ cur[t].key = EXIT_KEY))
    /\ pc' = [pc EXCEPT ![t] = Return(t)]
    /\ cur' = [cur EXCEPT ![t] = NoEvent]
    /\ val' = [val EXCEPT ![t] = 0]
    /\ g_act' = [g_act EXCEPT ![t] = 0]
    /\ UNCHANGED <<clock, pressed_keys, start_time, is_paused,
                   pause_start_time, total_pause_time, todo, kb_running,
                   ms_running, g_active, g_paused>>
    /\ UNCHANGED pvars

\* run_listeners: self.exit_event.wait() returns; cleanup() takes
\* keys_to_release = list(self.pressed_keys)
MainWake ==
    /\ pc["main"] = "wait"
    /\ exit_event
    /\ todo' = pressed_keys
    /\ pc' = [pc EXCEPT !["main"] = "loop"]
    /\ UNCHANGED <<clock, pressed_keys, saved_inputs, start_time, is_paused,
                   pause_start_time, total_pause_time, exit_event, cur, val,
                   kb_running, ms_running, g_active, g_paused, g_act, g_log>>
    /\ UNCHANGED pvars

\* cleanup: for key in keys_to_release: self.on_release(key)
cleanup ==
    /\ pc["main"] = "loop"
    /\ \E key \in todo :
          /\ todo' = todo \ {key}
          /\ on_release("main", key)
    /\ UNCHANGED <<clock, pressed_keys, saved_inputs, start_time, is_paused,
                   pause_start_time, total_pause_time, exit_event, val,
                   kb_running, ms_running, g_active, g_paused, g_act, g_log>>
    /\ UNCHANGED pvars

\* run_listeners: self.keyboard_listener.stop()
StopKeyboard ==
    /\ pc["main"] = "loop"
    /\ todo = {}
    /\ kb_running' = FALSE
    /\ pc' = [pc EXCEPT !["main"] = "stop_ms"]
    /\ UNCHANGED <<clock, pressed_keys, saved_inputs, start_time, is_paused,
                   pause_start_time, total_pause_time, exit_event, cur, val,
                   todo, ms_running, g_active, g_paused, g_act, g_log>>
    /\ UNCHANGED pvars

\* run_listeners: self.mouse_listener.stop(), and the return
StopMouse ==
    /\ pc["main"] = "stop_ms"
    /\ ms_running' = FALSE
    /\ pc' = [pc EXCEPT !["main"] = "returned"]
    /\ UNCHANGED <<clock, pressed_keys, saved_inputs, start_time, is_paused,
                   pause_start_time, total_pause_time, exit_event, cur, val,
                   todo, kb_running, g_active, g_paused, g_act, g_log>>
    /\ UNCHANGED pvars

RecNext ==
    \/ Tick
    \/ OnPressPause
    \/ TogglePauseFlag
    \/ ToggleResumeClear
    \/ ToggleResumeFlag
    \/ \E key \in Keys : OnPress(key)
    \/ \E key \in Keys : OnRelease(key)
    \/ \E pos \in Positions, b \in Buttons, pressed \in BOOLEAN :
          OnClick(pos, b, pressed)
    \/ \E pos \in Positions, d \in ScrollDirs : OnScroll(pos, d)
    \/ \E t \in Threads : RelRemove(t)
    \/ \E t \in Threads : ElapsedNow(t)
    \/ \E t \in Threads : ElapsedFlag(t)
    \/ \E t \in Threads : ElapsedPauseStart(t)
    \/ \E t \in Threads : ElapsedTotal(t)
    \/ \E t \in Threads : record_event(t)
    \/ MainWake
    \/ cleanup
    \/ StopKeyboard
    \/ StopMouse

\* the player's variables while the recorder runs: no playback is under way
PlayOff ==
    /\ data = <<>>
    /\ index = 0
    /\ ppc = "off"
    /\ in_wait = FALSE
    /\ p_is_paused = FALSE
    /\ pause_lock = "none"
    /\ hpc = "idle"
    /\ was_paused = FALSE
    /\ hotkey = FALSE
    /\ sink = <<>>
    /\ slept = 0
    /\ since = 0
    /\ p_exc = "none"
    /\ g_dispatched = <<>>
    /\ g_slept = 0
    /\ g_stop = "none"
    /\ g_steps = 0
    /\ p_pressed_keys = {}
    /\ g_released = {}

\* a recording session: the three threads of run_listeners
RecStart ==
    /\ RecInit
    /\ PlayOff

RecSpec == RecStart /\ [][RecNext]_vars

\* the steps of the three threads while the clock stands still: every
\* interleaving of the callbacks, the toggles and cleanup, all time stamps
\* equal (no step of the recorder branches on a time stamp)
RecFlowNext ==
    \/ OnPressPause
    \/ TogglePauseFlag
    \/ ToggleResumeClear
    \/ ToggleResumeFlag
    \/ \E key \in Keys : OnPress(key)
    \/ \E key \in Keys : OnRelease(key)
    \/ \E pos \in Positions, b \in Buttons, pressed \in BOOLEAN :
          OnClick(pos, b, pressed)
    \/ \E pos \in Positions, d \in ScrollDirs : OnScroll(pos, d)
    \/ \E t \in Threads : RelRemove(t)
    \/ \E t \in Threads : ElapsedNow(t)
    \/ \E t \in Threads : ElapsedFlag(t)
    \/ \E t \in Threads : ElapsedPauseStart(t)
    \/ \E t \in Threads : ElapsedTotal(t)
    \/ \E t \in Threads : record_event(t)
    \/ MainWake
    \/ cleanup
    \/ StopKeyboard
    \/ StopMouse

RecFlowSpec == RecStart /\ [][RecFlowNext]_vars

(***************************************************************************)
(* PLAYER  (src/macros/playback.py)                                        *)
(*                                                                         *)
(* One playback thread runs play_actions; one hotkey thread runs           *)
(* toggle_pause.  Recorded times and sleeps are counted in units of half   *)
(* a sleep slice (5 ms), so that min(0.01, elapsed_time - slept) can pick  *)
(* either argument.                                                        *)
(***************************************************************************)
\* a recording holds at most MaxEvents events
MaxEvents == 2
\* a sleep may overrun the requested duration by up to MaxOver units
MaxOver == 1
\* the time spent blocked in one wait is counted up to MaxBlocked units
MaxBlocked == 1

\* MacroPlayer.SCROLL_MULTIPLIER
SCROLL_MULTIPLIER == 120
\* the sleep slice of handle_delay, 0.01 s
SLICE == 2

\* utils/key_mappings.py: the entries of the table for the keys of the model
key_map ==
    [b \in {"Key.esc", "Key.shift", "Key.pause", "Key.delete"} |->
        CASE b = "Key.esc" -> "esc"
          [] b = "Key.shift" -> "shift"
          [] b = "Key.pause" -> "pause"
          [] b = "Key.delete" -> "delete"]

\* a translation that hands the recorded identifier on as it is
convert_key_identity(button) == button

\* self.key_map.get(button, button)
convert_key(button) ==
    IF button \in DOMAIN key_map THEN key_map[button] ELSE button

\* handle_click: button_map.get(action['button'], 'left')
button_map(button) ==
    CASE button = "Button.left" -> "left"
      [] button = "Button.right" -> "right"
      [] button = "Button.middle" -> "middle"
      [] OTHER -> "left"

\* the keys of self.action_handlers
HandledTypes == {CLICK, KEY_DOWN, KEY_UP, SCROLL}

\* the events a recording of the model is made of, less their time
EventShapes ==
    {[type |-> CLICK, button |-> "Button.left", pos |-> <<10, 20>>,
      scroll_direction |-> NoScroll],
     [type |-> KEY_DOWN, button |-> "a", pos |-> NoPos,
      scroll_direction |-> NoScroll],
     [type |-> KEY_UP, button |-> "a", pos |-> NoPos,
      scroll_direction |-> NoScroll],
     [type |-> KEY_DOWN, button |-> "Key.shift", pos |-> NoPos,
      scroll_direction |-> NoScroll],
     [type |-> KEY_UP, button |-> "Key.esc", pos |-> NoPos,
      scroll_direction |-> NoScroll],
     [type |-> KEY_DOWN, button |-> "esc", pos |-> NoPos,
      scroll_direction |-> NoScroll],
     [type |-> SCROLL, button |-> "mouse_wheel", pos |-> <<10, 20>>,
      scroll_direction |-> [dx |-> 1, dy |-> -1]],
     [type |-> "drag", button |-> "Button.left", pos |-> <<10, 20>>,
      scroll_direction |-> NoScroll]}

\* the time of a recording's first event, and the gaps between two events
FirstTime == 1
Gaps == {-1, 0, 1, 3}

WithTime(shape, t) ==
    [time |-> t, type |-> shape.type, button |-> shape.button,
     pos |-> shape.pos, scroll_direction |-> shape.scroll_direction]

\* the recordings of n events
RECURSIVE RecordingsOfLen(_)
RecordingsOfLen(n) ==
    IF n = 0 THEN {<<>>}
    ELSE IF n = 1 THEN {<<WithTime(sh, FirstTime)>> : sh \in EventShapes}
    ELSE UNION {{Append(r, WithTime(sh, r[n - 1].time + g)) :
                    sh \in EventShapes, g \in Gaps} :
                 r \in RecordingsOfLen(n - 1)}

Recordings == UNION {RecordingsOfLen(n) : n \in 0..MaxEvents}

PlayInit ==
    /\ data \in Recordings
    /\ index = 0
    /\ ppc = "start"
    /\ in_wait = FALSE
    /\ p_is_paused = FALSE
    /\ pause_lock = "none"
    /\ hpc = "idle"
    /\ was_paused = FALSE
    /\ hotkey = FALSE
    /\ sink = <<>>
    /\ slept = 0
    /\ since = 0
    /\ p_exc = "none"
    /\ g_dispatched = <<>>
    /\ g_slept = 0
    /\ g_stop = "none"
    /\ g_steps = 0
    /\ p_pressed_keys = {}
    /\ g_released = {}

\* one call on pyautogui
SinkCall(op, key, x, y, amount) ==
    [op |-> op, key |-> key, x |-> x, y |-> y, amount |-> amount]

\* handle_click: pyautogui.click(x, y, duration=0, button)
handle_click(action) ==
    <<SinkCall("click", button_map(action.button), action.pos[1],
               action.pos[2], 0)>>

\* handle_key_down: pyautogui.keyDown(self.convert_key(action['button']))
handle_key_down(action) ==
    <<SinkCall("keyDown", convert_key(action.button), 0, 0, 0)>>

\* handle_key_up: pyautogui.keyUp(self.convert_key(action['button']))
handle_key_up(action) ==
    <<SinkCall("keyUp", convert_key(action.button), 0, 0, 0)>>

\* a handle_scroll that issues both scrolls whatever the deltas are
handle_scroll_always(action) ==
    <<SinkCall("moveTo", "", action.pos[1], action.pos[2], 0),
      SinkCall("scroll", "", 0, 0,
               action.scroll_direction.dy * SCROLL_MULTIPLIER),
      SinkCall("hscroll", "", 0, 0,
               action.scroll_direction.dx * SCROLL_MULTIPLIER)>>

\* handle_scroll: moveTo, then scroll when dy != 0, then hscroll when dx != 0
handle_scroll(action) ==
    LET dx == action.scroll_direction.dx
        dy == action.scroll_direction.dy
    IN  <<SinkCall("moveTo", "", action.pos[1], action.pos[2], 0)>>
        \o (IF dy # 0
            THEN <<SinkCall("scroll", "", 0, 0, dy * SCROLL_MULTIPLIER)>>
            ELSE <<>>)
        \o (IF dx # 0
            THEN <<SinkCall("hscroll", "", 0, 0, dx * SCROLL_MULTIPLIER)>>
            ELSE <<>>)

\* a lookup that skips an unknown type silently
HandlerFoundAlways(type) == TRUE

\* self.action_handlers.get(action['type']) is not None
HandlerFound(type) == type \in HandledTypes

\* the calls the handler of the action's type makes on the sink
action_handlers(action) ==
    CASE action.type = CLICK -> handle_click(action)
      [] action.type = KEY_DOWN -> handle_key_down(action)
      [] action.type = KEY_UP -> handle_key_up(action)
      [] action.type = SCROLL -> handle_scroll(action)
      [] OTHER -> <<>>

\* play_actions: action['button'] == 'Key.esc'
IsEscape(action) == action.button = "Key.esc"

\* handle_delay: elapsed_time = next_action['time'] - current_action['time']
Elapsed(i) == data[i + 1].time - data[i].time

\* a loop test that ends the delay one unit early
LoopContinuesShort(s, e) == s + 1 < e

\* handle_delay: while slept < elapsed_time
LoopContinues(s, e) == s < e

\* a loop that plays the same event again
NextIndexStuck(i) == i

\* play_actions: the next index of enumerate(data)
NextIndex(i) == i + 1

\* one sleep for all that is left of the delay
SliceLengthWhole(s, e) == e - s

\* handle_delay: min(0.01, elapsed_time - slept)
SliceLength(s, e) == IF SLICE < e - s THEN SLICE ELSE e - s

\* wait_if_paused at a call site: with the lock held, either is_paused is
\* false and the thread goes on to `next`, or it enters pause_lock.wait()
wait_if_paused(next) ==
    /\ ~in_wait
    /\ pause_lock = "none"
    /\ IF p_is_paused
       THEN /\ in_wait' = TRUE
            /\ UNCHANGED ppc
       ELSE /\ ppc' = next
            /\ UNCHANGED in_wait

\* play_actions: self.start_pause_listener(), and the first test of the loop
Start ==
    /\ ppc = "start"
    /\ hotkey' = TRUE
    /\ IF data = <<>>
       THEN /\ ppc' = "finish"
            /\ g_stop' = "exhausted"
            /\ UNCHANGED index
       ELSE /\ ppc' = "top"
            /\ index' = 1
            /\ UNCHANGED g_stop
    /\ UNCHANGED <<data, in_wait, p_is_paused, pause_lock, hpc, was_paused,
                   sink, slept, since, p_exc, g_dispatched, g_slept>>
    /\ UNCHANGED g_steps
    /\ UNCHANGED <<p_pressed_keys, g_released>>
    /\ UNCHANGED rvars

\* play_actions, top of the loop body: self.wait_if_paused()
Top ==
    /\ ppc = "top"
    /\ wait_if_paused("lookup")
    /\ UNCHANGED <<data, index, p_is_paused, pause_lock, hpc, was_paused,
                   hotkey, sink, slept, since, p_exc, g_dispatched, g_slept,
                   g_stop>>
    /\ UNCHANGED g_steps
    /\ UNCHANGED <<p_pressed_keys, g_released>>
    /\ UNCHANGED rvars

\* play_actions: the escape test and the handler lookup
Lookup ==
    /\ ppc = "lookup"
    /\ IF IsEscape(data[index])
       THEN /\ ppc' = "finish"
            /\ g_stop' = "escape"
            /\ UNCHANGED p_exc
       ELSE IF HandlerFound(data[index].type)
       THEN /\ ppc' = "handler"
            /\ UNCHANGED <<p_exc, g_stop>>
       ELSE /\ ppc' = "raised"
            /\ p_exc' = "Exception"
            /\ UNCHANGED g_stop
    /\ UNCHANGED <<data, index, in_wait, p_is_paused, pause_lock, hpc,
                   was_paused, hotkey, sink, slept, since, g_dispatched,
                   g_slept>>
    /\ UNCHANGED g_steps
    /\ UNCHANGED <<p_pressed_keys, g_released>>
    /\ UNCHANGED rvars

\* handle_click / handle_key_down / handle_key_up / handle_scroll:
\* self.wait_if_paused()
Handler ==
    /\ ppc = "handler"
    /\ wait_if_paused("dispatch")
    /\ UNCHANGED <<data, index, p_is_paused, pause_lock, hpc, was_paused,
                   hotkey, sink, slept, since, p_exc, g_dispatched, g_slept,
                   g_stop>>
    /\ UNCHANGED g_steps
    /\ UNCHANGED <<p_pressed_keys, g_released>>
    /\ UNCHANGED rvars

\* a handle_delay that does not look at the sign of the gap
NegativeGapIgnored(e) == FALSE

\* handle_delay: if elapsed_time < 0
NegativeGap(e) == e < 0

\* where play_actions goes after handler(action) has returned
AfterHandler ==
    IF index + 1 <= Len(data)
    THEN IF NegativeGap(Elapsed(index))
         THEN /\ ppc' = "raised"
              /\ p_exc' = "ValueError"
              /\ UNCHANGED <<index, g_stop>>
         ELSE /\ ppc' = "delay"
              /\ UNCHANGED <<index, p_exc, g_stop>>
    ELSE /\ ppc' = "finish"
         /\ g_stop' = "exhausted"
         /\ index' = NextIndex(index)
         /\ UNCHANGED p_exc

\* the handler's calls on the sink: the first n succeed; when n is not all
\* of them the next call raises and the exception leaves play_actions.
\* Then, on success, the start of handle_delay (slept = 0.0)
Dispatch ==
    /\ ppc = "dispatch"
    /\ \E n \in 0..Len(action_handlers(data[index])) :
          /\ sink' = sink \o SubSeq(action_handlers(data[index]), 1, n)
          /\ IF n = Len(action_handlers(data[index]))
             THEN AfterHandler
             ELSE /\ ppc' = "raised"
                  /\ p_exc' = "SinkError"
                  /\ UNCHANGED <<index, g_stop>>
    /\ g_dispatched' = Append(g_dispatched, index)
    /\ slept' = 0
    /\ g_slept' = 0
    /\ UNCHANGED <<data, in_wait, p_is_paused, pause_lock, hpc, was_paused,
                   hotkey, since>>
    /\ g_steps' = IF p_is_paused THEN g_steps + 1 ELSE 0
    /\ UNCHANGED <<p_pressed_keys, g_released>>
    /\ UNCHANGED rvars

\* handle_delay: the loop test; then self.wait_if_paused(), or the return
\* and the next iteration of play_actions' loop
Delay ==
    /\ ppc = "delay"
    /\ IF LoopContinues(slept, Elapsed(index))
       THEN /\ wait_if_paused("slice")
            /\ UNCHANGED index
       ELSE /\ ~in_wait
            /\ ppc' = "top"
            /\ index' = NextIndex(index)
            /\ UNCHANGED in_wait
    /\ UNCHANGED <<data, p_is_paused, pause_lock, hpc, was_paused, hotkey,
                   sink, slept, since, p_exc, g_dispatched, g_slept, g_stop>>
    /\ UNCHANGED g_steps
    /\ UNCHANGED <<p_pressed_keys, g_released>>
    /\ UNCHANGED rvars

\* handle_delay: start_time = time()
Slice ==
    /\ ppc = "slice"
    /\ since' = 0
    /\ ppc' = "sleeping"
    /\ UNCHANGED <<data, index, in_wait, p_is_paused, pause_lock, hpc,
                   was_paused, hotkey, sink, slept, p_exc, g_dispatched,
                   g_slept, g_stop>>
    /\ g_steps' = IF p_is_paused THEN g_steps + 1 ELSE 0
    /\ UNCHANGED <<p_pressed_keys, g_released>>
    /\ UNCHANGED rvars

\* one unit of time passes while the playback thread sleeps in a slice
SleepTick ==
    /\ ppc = "sleeping"
    /\ since < SliceLength(slept, Elapsed(index)) + MaxOver
    /\ since' = since + 1
    /\ g_slept' = g_slept + 1
    /\ UNCHANGED <<data, index, ppc, in_wait, p_is_paused, pause_lock, hpc,
                   was_paused, hotkey, sink, slept, p_exc, g_dispatched,
                   g_stop>>
    /\ UNCHANGED g_steps
    /\ UNCHANGED <<p_pressed_keys, g_released>>
    /\ UNCHANGED rvars

\* one unit of time passes while the playback thread is inside wait()
BlockedTick ==
    /\ in_wait
    /\ since < SLICE + MaxOver + MaxBlocked
    /\ since' = since + 1
    /\ UNCHANGED <<data, index, ppc, in_wait, p_is_paused, pause_lock, hpc,
                   was_paused, hotkey, sink, slept, p_exc, g_dispatched,
                   g_slept, g_stop>>
    /\ UNCHANGED g_steps
    /\ UNCHANGED <<p_pressed_keys, g_released>>
    /\ UNCHANGED rvars

\* handle_delay: sleep(...) returns; slept += time() - start_time
SleepDone ==
    /\ ppc = "sleeping"
    /\ since >= SliceLength(slept, Elapsed(index))
    /\ slept' = slept + since
    /\ ppc' = "delay"
    /\ UNCHANGED <<data, index, in_wait, p_is_paused, pause_lock, hpc,
                   was_paused, hotkey, sink, since, p_exc, g_dispatched,
                   g_slept, g_stop>>
    /\ UNCHANGED g_steps
    /\ UNCHANGED <<p_pressed_keys, g_released>>
    /\ UNCHANGED rvars

\* a play_actions that leaves the hotkey registered
remove_hotkey_missing == TRUE

\* keyboard.remove_hotkey(self.PAUSE_KEY) leaves the hotkey unregistered
remove_hotkey == FALSE

\* play_actions, after the loop: keyboard.remove_hotkey(self.PAUSE_KEY)
Finish ==
    /\ ppc = "finish"
    /\ hotkey' = remove_hotkey
    /\ ppc' = "done"
    /\ UNCHANGED <<data, index, in_wait, p_is_paused, pause_lock, hpc,
                   was_paused, sink, slept, since, p_exc, g_dispatched,
                   g_slept, g_stop>>
    /\ UNCHANGED g_steps
    /\ UNCHANGED <<p_pressed_keys, g_released>>
    /\ UNCHANGED rvars

\* side effects of a resume on every toggle
ResumeBranchAlways(now_paused) == TRUE

\* toggle_pause, after the flip: if not self.is_paused
ResumeBranch(now_paused) == ~now_paused

\* a resume that wakes nobody
notify_all_missing == in_wait

\* self.pause_lock.notify_all(): no thread is left inside wait()
notify_all == FALSE

\* a toggle_pause that leaves the lock before it runs the countdown
CountdownLockHolderNobody == "none"

\* toggle_pause: countdown_timer() is called inside `with self.pause_lock`,
\* so the hotkey thread holds the lock while the countdown runs
CountdownLockHolder == "hotkey"

\* toggle_pause on the hotkey thread, the block under `with self.pause_lock`
\* up to the call of countdown_timer()
toggle_pause_player ==
    /\ hpc = "idle"
    /\ hotkey
    /\ pause_lock = "none"
    /\ p_is_paused' = ~p_is_paused
    /\ was_paused' = ~p_is_paused
    /\ IF ResumeBranch(~p_is_paused)
       THEN /\ in_wait' = notify_all
            /\ pause_lock' = CountdownLockHolder
            /\ hpc' = "countdown"
       ELSE /\ hpc' = "sleep3"
            /\ UNCHANGED <<in_wait, pause_lock>>
    /\ UNCHANGED <<data, index, ppc, hotkey, sink, slept, since, p_exc,
                   g_dispatched, g_slept, g_stop>>
    /\ g_steps' = 0
    /\ UNCHANGED <<p_pressed_keys, g_released>>
    /\ UNCHANGED rvars

\* toggle_pause: countdown_timer() returns and the lock is released
CountdownDone ==
    /\ hpc = "countdown"
    /\ pause_lock' = "none"
    /\ hpc' = "idle"
    /\ UNCHANGED <<data, index, ppc, in_wait, p_is_paused, was_paused, hotkey,
                   sink, slept, since, p_exc, g_dispatched, g_slept, g_stop>>
    /\ UNCHANGED g_steps
    /\ UNCHANGED <<p_pressed_keys, g_released>>
    /\ UNCHANGED rvars

\* toggle_pause: sleep(3) after a toggle into Paused returns
SleepAfterPause ==
    /\ hpc = "sleep3"
    /\ hpc' = "idle"
    /\ UNCHANGED <<data, index, ppc, in_wait, p_is_paused, pause_lock,
                   was_paused, hotkey, sink, slept, since, p_exc,
                   g_dispatched, g_slept, g_stop>>
    /\ UNCHANGED g_steps
    /\ UNCHANGED <<p_pressed_keys, g_released>>
    /\ UNCHANGED rvars

PlayNext ==
    \/ Start
    \/ Top
    \/ Lookup
    \/ Handler
    \/ Dispatch
    \/ Delay
    \/ Slice
    \/ SleepTick
    \/ BlockedTick
    \/ SleepDone
    \/ Finish
    \/ toggle_pause_player
    \/ CountdownDone
    \/ SleepAfterPause

\* a playback: play_actions on one recording, and the hotkey thread
\* the state when play_actions is called: no recording session is under way
PlayStart ==
    /\ PlayInit
    /\ RecInit

PlaySpec == PlayStart /\ [][PlayNext]_vars

\* the steps of the playback thread
PlayThread ==
    \/ Start
    \/ Top
    \/ Lookup
    \/ Handler
    \/ Dispatch
    \/ Delay
    \/ Slice
    \/ SleepTick
    \/ SleepDone
    \/ Finish

\* scheduling: the playback thread runs whenever it can (it is not inside
\* wait() and the lock it needs is free), and on the hotkey thread
\* countdown_timer() and sleep(3) return.  When the pause key is pressed is
\* up to the user: toggle_pause_player is under no fairness.
PlayFairness ==
    /\ WF_vars(PlayThread)
    /\ WF_vars(CountdownDone)
    /\ WF_vars(SleepAfterPause)

PlayFairSpec == PlayStart /\ [][PlayNext]_vars /\ PlayFairness

\* a recording of key events holds at most MaxKeyEvents events
MaxKeyEvents == 3

\* the key events of a recording with the exit key's event in it
KeyShapes ==
    {sh \in EventShapes :
        /\ sh.type \in {KEY_DOWN, KEY_UP}
        /\ sh.button \in {"a", "Key.esc"}}

RECURSIVE KeyRecordingsOfLen(_)
KeyRecordingsOfLen(n) ==
    IF n = 0 THEN {<<>>}
    ELSE IF n = 1 THEN {<<WithTime(sh, FirstTime)>> : sh \in KeyShapes}
    ELSE UNION {{Append(r, WithTime(sh, r[n - 1].time + g)) :
                    sh \in KeyShapes, g \in {0, 1}} :
                 r \in KeyRecordingsOfLen(n - 1)}

\* play_actions is called on a recording of key events
KeyPlayStart ==
    /\ data \in UNION {KeyRecordingsOfLen(n) : n \in 0..MaxKeyEvents}
    /\ index = 0
    /\ ppc = "start"
    /\ in_wait = FALSE
    /\ p_is_paused = FALSE
    /\ pause_lock = "none"
    /\ hpc = "idle"
    /\ was_paused = FALSE
    /\ hotkey = FALSE
    /\ sink = <<>>
    /\ slept = 0
    /\ since = 0
    /\ p_exc = "none"
    /\ g_dispatched = <<>>
    /\ g_slept = 0
    /\ g_stop = "none"
    /\ g_steps = 0
    /\ p_pressed_keys = {}
    /\ g_released = {}
    /\ RecInit

\* a playback of a recording of key events
KeyPlaySpec == KeyPlayStart /\ [][PlayNext]_vars

\* a recording of scroll events holds at most MaxScrollEvents events
MaxScrollEvents == 2

\* scroll events as on_scroll records them: no wheel movement at all, a
\* vertical one, a horizontal one, and both at once
ScrollShapes ==
    {[type |-> SCROLL, button |-> "mouse_wheel", pos |-> <<10, 20>>,
      scroll_direction |-> [dx |-> 0, dy |-> 0]],
     [type |-> SCROLL, button |-> "mouse_wheel", pos |-> <<30, 40>>,
      scroll_direction |-> [dx |-> 0, dy |-> 2]],
     [type |-> SCROLL, button |-> "mouse_wheel", pos |-> <<10, 20>>,
      scroll_direction |-> [dx |-> -1, dy |-> 0]],
     [type |-> SCROLL, button |-> "mouse_wheel", pos |-> <<30, 40>>,
      scroll_direction |-> [dx |-> 1, dy |-> -1]]}

RECURSIVE ScrollRecordingsOfLen(_)
ScrollRecordingsOfLen(n) ==
    IF n = 0 THEN {<<>>}
    ELSE IF n = 1 THEN {<<WithTime(sh, FirstTime)>> : sh \in ScrollShapes}
    ELSE UNION {{Append(r, WithTime(sh, r[n - 1].time + g)) :
                    sh \in ScrollShapes, g \in {0, 3}} :
                 r \in ScrollRecordingsOfLen(n - 1)}

\* play_actions is called on a recording of scroll events
ScrollPlayStart ==
    /\ data \in UNION {ScrollRecordingsOfLen(n) : n \in 0..MaxScrollEvents}
    /\ index = 0
    /\ ppc = "start"
    /\ in_wait = FALSE
    /\ p_is_paused = FALSE
    /\ pause_lock = "none"
    /\ hpc = "idle"
    /\ was_paused = FALSE
    /\ hotkey = FALSE
    /\ sink = <<>>
    /\ slept = 0
    /\ since = 0
    /\ p_exc = "none"
    /\ g_dispatched = <<>>
    /\ g_slept = 0
    /\ g_stop = "none"
    /\ g_steps = 0
    /\ p_pressed_keys = {}
    /\ g_released = {}
    /\ RecInit

\* a playback of a recording of scroll events
ScrollPlaySpec == ScrollPlayStart /\ [][PlayNext]_vars

(***************************************************************************)
(* ABSOLUTE-OFFSET PLAYER  (src/macros/playback-depreciated.py)            *)
(*                                                                         *)
(* The earlier MacroPlayer: each event is played when the time since the   *)
(* start of the playback has reached the event's offset from the first     *)
(* event; the player keeps the keys it holds down in pressed_keys and      *)
(* releases them in cleanup().  Its toggle_pause and wait_if_paused take   *)
(* the steps of playback.py's.  `since` is perf_counter() less             *)
(* playback_start_time.                                                    *)
(***************************************************************************)
\* the key events of a recording: 'a' and shift pressed, 'a' released, and
\* the exit key's release
OldShapes ==
    {sh \in EventShapes :
        /\ sh.type \in {KEY_DOWN, KEY_UP}
        /\ sh.button \in {"a", "Key.shift", "Key.esc"}}

RECURSIVE OldRecordingsOfLen(_)
OldRecordingsOfLen(n) ==
    IF n = 0 THEN {<<>>}
    ELSE IF n = 1 THEN {<<WithTime(sh, FirstTime)>> : sh \in OldShapes}
    ELSE UNION {{Append(r, WithTime(sh, r[n - 1].time + g)) :
                    sh \in OldShapes, g \in {0, 1}} :
                 r \in OldRecordingsOfLen(n - 1)}

\* the state when the absolute-offset player's play_actions is called
OldPlayStart ==
    /\ data \in UNION {OldRecordingsOfLen(n) : n \in 0..MaxKeyEvents}
    /\ index = 0
    /\ ppc = "start"
    /\ in_wait = FALSE
    /\ p_is_paused = FALSE
    /\ pause_lock = "none"
    /\ hpc = "idle"
    /\ was_paused = FALSE
    /\ hotkey = FALSE
    /\ sink = <<>>
    /\ slept = 0
    /\ since = 0
    /\ p_exc = "none"
    /\ g_dispatched = <<>>
    /\ g_slept = 0
    /\ g_stop = "none"
    /\ g_steps = 0
    /\ p_pressed_keys = {}
    /\ g_released = {}
    /\ RecInit

\* target_playback_time of the event at index i
TargetTime(i) == data[i].time - data[1].time

\* the largest offset of the recording: the playback clock of the model
\* stops there
OldHorizon == IF data = <<>> THEN 0 ELSE TargetTime(Len(data))

\* a handle_key_down that presses a key whether it is held or not
KeyDownSkippedNever(key) == FALSE

\* handle_key_down: not (key not in self.pressed_keys)
KeyDownSkipped(key) == key \in p_pressed_keys

\* the calls the handler of the action's type makes on the sink
old_action_handlers(action) ==
    CASE action.type = KEY_DOWN ->
           IF KeyDownSkipped(convert_key(action.button)) THEN <<>>
           ELSE <<SinkCall("keyDown", convert_key(action.button), 0, 0, 0)>>
      [] action.type = KEY_UP ->
           IF convert_key(action.button) \in p_pressed_keys
           THEN <<SinkCall("keyUp", convert_key(action.button), 0, 0, 0)>>
           ELSE <<>>
      [] action.type = CLICK ->
           (IF action.pos # NoPos
            THEN <<SinkCall("moveTo", "", action.pos[1], action.pos[2], 0)>>
            ELSE <<>>)
           \o <<SinkCall("click", button_map(action.button), 0, 0, 0)>>
      [] action.type = SCROLL -> handle_scroll(action)
      [] OTHER -> <<>>

\* self.pressed_keys when the handler has returned
PressedAfter(action) ==
    CASE action.type = KEY_DOWN ->
           p_pressed_keys \cup {convert_key(action.button)}
      [] action.type = KEY_UP ->
           p_pressed_keys \ {convert_key(action.button)}
      [] OTHER -> p_pressed_keys

\* play_actions: start_pause_listener(), pressed_keys.clear(), the start of
\* the playback clock, and the first test of the loop
OldStart ==
    /\ ppc = "start"
    /\ hotkey' = TRUE
    /\ p_pressed_keys' = {}
    /\ since' = 0
    /\ IF data = <<>>
       THEN /\ ppc' = "cleanup"
            /\ g_stop' = "exhausted"
            /\ UNCHANGED index
       ELSE /\ ppc' = "top"
            /\ index' = 1
            /\ UNCHANGED g_stop
    /\ UNCHANGED <<data, in_wait, p_is_paused, pause_lock, hpc, was_paused,
                   sink, slept, p_exc, g_dispatched, g_slept, g_steps,
                   g_released>>
    /\ UNCHANGED rvars

\* play_actions, top of the loop body: self.wait_if_paused()
OldTop ==
    /\ ppc = "top"
    /\ wait_if_paused("busy")
    /\ UNCHANGED <<data, index, p_is_paused, pause_lock, hpc, was_paused,
                   hotkey, sink, slept, since, p_exc, g_dispatched, g_slept,
                   g_stop, g_steps, p_pressed_keys, g_released>>
    /\ UNCHANGED rvars

\* one unit of time passes on the playback clock
OldTick ==
    /\ ppc \notin {"start", "done", "raised"}
    /\ since < OldHorizon
    /\ since' = since + 1
    /\ UNCHANGED <<data, index, ppc, in_wait, p_is_paused, pause_lock, hpc,
                   was_paused, hotkey, sink, slept, p_exc, g_dispatched,
                   g_slept, g_stop, g_steps, p_pressed_keys, g_released>>
    /\ UNCHANGED rvars

\* play_actions: the busy-wait ends when the clock has reached the target
OldBusyWait ==
    /\ ppc = "busy"
    /\ ~(since < TargetTime(index))
    /\ ppc' = "lookup"
    /\ UNCHANGED <<data, index, in_wait, p_is_paused, pause_lock, hpc,
                   was_paused, hotkey, sink, slept, since, p_exc,
                   g_dispatched, g_slept, g_stop, g_steps, p_pressed_keys,
                   g_released>>
    /\ UNCHANGED rvars

\* play_actions: the escape test on the translated key, and the handler
\* lookup
OldLookup ==
    /\ ppc = "lookup"
    /\ IF convert_key(data[index].button) = "esc"
       THEN /\ ppc' = "cleanup"
            /\ g_stop' = "escape"
            /\ UNCHANGED p_exc
       ELSE IF HandlerFound(data[index].type)
       THEN /\ ppc' = "handler"
            /\ UNCHANGED <<p_exc, g_stop>>
       ELSE /\ ppc' = "raised"
            /\ p_exc' = "Exception"
            /\ UNCHANGED g_stop
    /\ UNCHANGED <<data, index, in_wait, p_is_paused, pause_lock, hpc,
                   was_paused, hotkey, sink, slept, since, g_dispatched,
                   g_slept, g_steps, p_pressed_keys, g_released>>
    /\ UNCHANGED rvars

\* the handlers: self.wait_if_paused()
OldHandler ==
    /\ ppc = "handler"
    /\ wait_if_paused("dispatch")
    /\ UNCHANGED <<data, index, p_is_paused, pause_lock, hpc, was_paused,
                   hotkey, sink, slept, since, p_exc, g_dispatched, g_slept,
                   g_stop, g_steps, p_pressed_keys, g_released>>
    /\ UNCHANGED rvars

\* the rest of the handler: its calls on the sink (the first n succeed; when
\* n is not all of them the next call raises and the exception leaves
\* play_actions) and its update of pressed_keys; then the next iteration,
\* or the end of the loop
OldDispatch ==
    /\ ppc = "dispatch"
    /\ \E n \in 0..Len(old_action_handlers(data[index])) :
          /\ sink' = sink \o SubSeq(old_action_handlers(data[index]), 1, n)
          /\ IF n = Len(old_action_handlers(data[index]))
             THEN /\ p_pressed_keys' = PressedAfter(data[index])
                  /\ index' = NextIndex(index)
                  /\ UNCHANGED p_exc
                  /\ IF index + 1 <= Len(data)
                     THEN /\ ppc' = "top"
                          /\ UNCHANGED g_stop
                     ELSE /\ ppc' = "cleanup"
                          /\ g_stop' = "exhausted"
             ELSE /\ ppc' = "raised"
                  /\ p_exc' = "SinkError"
                  /\ UNCHANGED <<index, g_stop, p_pressed_keys>>
    /\ g_dispatched' = Append(g_dispatched, index)
    /\ UNCHANGED <<data, in_wait, p_is_paused, pause_lock, hpc, was_paused,
                   hotkey, slept, since, g_slept, g_steps, g_released>>
    /\ UNCHANGED rvars

\* a cleanup that finds nothing to release
keys_to_release_none == {}

\* cleanup: list(self.pressed_keys)
keys_to_release == p_pressed_keys

\* the keyUp calls for the keys of S, one after the other
RECURSIVE KeyUpCalls(_)
KeyUpCalls(S) ==
    IF S = {} THEN <<>>
    ELSE LET k == CHOOSE x \in S : TRUE
         IN  <<SinkCall("keyUp", k, 0, 0, 0)>> \o KeyUpCalls(S \ {k})

\* play_actions, after the loop: self.cleanup().  keyUp is called for every
\* key of the list; a call that raises is caught and the loop goes on (the
\* calls for the keys of `ok` succeed); then pressed_keys.clear()
OldCleanup ==
    /\ ppc = "cleanup"
    /\ \E ok \in SUBSET keys_to_release :
          sink' = sink \o KeyUpCalls(ok)
    /\ g_released' = g_released \cup keys_to_release
    /\ p_pressed_keys' = {}
    /\ ppc' = "finish"
    /\ UNCHANGED <<data, index, in_wait, p_is_paused, pause_lock, hpc,
                   was_paused, hotkey, slept, since, p_exc, g_dispatched,
                   g_slept, g_stop, g_steps>>
    /\ UNCHANGED rvars

\* play_actions: keyboard.remove_hotkey(self.PAUSE_KEY), and the return
OldFinish ==
    /\ ppc = "finish"
    /\ hotkey' = remove_hotkey
    /\ ppc' = "done"
    /\ UNCHANGED <<data, index, in_wait, p_is_paused, pause_lock, hpc,
                   was_paused, sink, slept, since, p_exc, g_dispatched,
                   g_slept, g_stop, g_steps, p_pressed_keys, g_released>>
    /\ UNCHANGED rvars

OldPlayNext ==
    \/ OldStart
    \/ OldTop
    \/ OldTick
    \/ OldBusyWait
    \/ OldLookup
    \/ OldHandler
    \/ OldDispatch
    \/ OldCleanup
    \/ OldFinish
    \/ toggle_pause_player
    \/ CountdownDone
    \/ SleepAfterPause

\* a playback by the absolute-offset player, and its hotkey thread
OldPlaySpec == OldPlayStart /\ [][OldPlayNext]_vars

(***************************************************************************)
(* Claims about the recorder                                               *)
(***************************************************************************)
\* the entries of a log, by position
Entries(log) == 1..Len(log)

\* no keyDown entry of log lacks a later keyUp entry for the same key
NoDanglingKeyDown(log) ==
    \A i \in Entries(log) :
        log[i].type = KEY_DOWN =>
            \E j \in Entries(log) :
                j > i /\ log[j].type = KEY_UP /\ log[j].button = log[i].button

\* C1: once run_listeners() has returned, every keyDown entry of saved_inputs
\* is followed later in the list by a keyUp entry for the same key.
C1_CleanupLeavesNoDanglingKeyDown ==
    pc["main"] = "returned" => NoDanglingKeyDown(saved_inputs)

\* C2: between any two keyDown entries for the same key in the recorder's log
\* there is a keyUp entry for that key.
C2_NoDuplicateKeyDown ==
    \A i, j \in Entries(saved_inputs) :
        (/\ i < j
         /\ saved_inputs[i].type = KEY_DOWN
         /\ saved_inputs[j].type = KEY_DOWN
         /\ saved_inputs[i].button = saved_inputs[j].button)
        => \E k \in Entries(saved_inputs) :
              /\ i < k
              /\ k < j
              /\ saved_inputs[k].type = KEY_UP
              /\ saved_inputs[k].button = saved_inputs[i].button

\* C3: the recorded times of two consecutive log entries differ by the wall
\* clock time between their time stamps minus the time spent Paused in
\* between (the active time between them), and the last entry's time never
\* exceeds the session's active duration.
C3_PauseCorrectedClock ==
    /\ \A i \in Entries(saved_inputs) :
          i > 1 =>
            saved_inputs[i].time - saved_inputs[i - 1].time
                = g_log[i].act - g_log[i - 1].act
    /\ saved_inputs # <<>> =>
          saved_inputs[Len(saved_inputs)].time <= g_active

(***************************************************************************)
(* Claims about the player                                                 *)
(***************************************************************************)
\* the indices of the events handed to a handler so far
Dispatched == {g_dispatched[k] : k \in 1..Len(g_dispatched)}

\* the calls on the sink of the first n events of the recording
RECURSIVE CallsOfFirst(_)
CallsOfFirst(n) ==
    IF n = 0 THEN <<>>
    ELSE CallsOfFirst(n - 1) \o action_handlers(data[n])

\* C4: if an event's key identifier, after translation through the key map,
\* is the escape key 'esc', playback stops at that event: the sink receives
\* no call of that event and none of a later event.
C4_EscapeAfterTranslationStops ==
    \A i \in 1..Len(data) :
        convert_key(data[i].button) = "esc" =>
            Len(sink) <= Len(CallsOfFirst(i - 1))

\* C5: the events dispatched to the sink are a prefix of the recording, in
\* recorded order, each dispatched once and none skipped; the calls received
\* by the sink are those of that prefix (the last event's calls cut short
\* only when one of them failed).
C5_InOrderPlayback ==
    LET n == Len(g_dispatched)
    IN  /\ n <= Len(data)
        /\ \A k \in 1..n : g_dispatched[k] = k
        /\ n = 0 => sink = <<>>
        /\ n > 0 =>
             \E m \in 0..Len(action_handlers(data[n])) :
                /\ sink = CallsOfFirst(n - 1)
                            \o SubSeq(action_handlers(data[n]), 1, m)
                /\ p_exc # "SinkError" => m = Len(action_handlers(data[n]))

\* two events were dispatched in order, none of their calls failed, and the
\* hotkey thread has toggled the player to Paused
C5_Witness ==
    /\ g_dispatched = <<1, 2>>
    /\ Len(sink) >= 2
    /\ p_exc = "none"
    /\ p_is_paused

\* C6: when the player goes on to event i+1 it has accumulated, inside the
\* sleep slices, at least the recorded gap time[i+1] - time[i]; the amount
\* it accumulates (slept) is the time spent inside the slices, so the time
\* spent blocked in wait_if_paused is never part of it.
C6_InterEventWait ==
    /\ (ppc \in {"top", "lookup", "handler", "dispatch"} /\ index > 1) =>
          /\ g_slept >= data[index].time - data[index - 1].time
          /\ slept = g_slept
    /\ ppc = "delay" => slept = g_slept

\* the player is blocked by a pause between two slices of a delay, time has
\* passed while it was blocked, and the delay is not over
C6_Witness ==
    /\ ppc = "delay"
    /\ in_wait
    /\ slept = SLICE
    /\ since > slept
    /\ Elapsed(index) = 3

\* C7: play_actions on the empty recording dispatches nothing, performs no
\* wait and ends normally, with the pause hotkey registered and then removed.
C7_EmptyRecording ==
    data = <<>> =>
        /\ sink = <<>>
        /\ g_dispatched = <<>>
        /\ ppc \in {"start", "finish", "done"}
        /\ ~in_wait
        /\ slept = 0 /\ g_slept = 0
        /\ p_exc = "none"
        /\ ppc = "start" => ~hotkey
        /\ ppc = "finish" => hotkey
        /\ ppc = "done" => ~hotkey /\ g_stop = "exhausted"

\* play_actions([]) has returned
C7_Witness ==
    /\ data = <<>>
    /\ ppc = "done"

\* the event is no escape sentinel and its type has no handler
UnknownKind(ev) == ~IsEscape(ev) /\ ev.type \notin HandledTypes

\* C8: when play_actions reaches an event that is no escape sentinel and
\* whose type is none of click, keyDown, keyUp, scroll, the session ends in
\* an error at that event: it is not dispatched, it is not stepped over, and
\* no later event is dispatched.
C8_UnknownKindIsFatal ==
    \A i \in 1..Len(data) :
        UnknownKind(data[i]) =>
            /\ \A j \in Dispatched : j < i
            /\ Len(sink) <= Len(CallsOfFirst(i - 1))
            /\ index <= i
            /\ (index = i /\ ppc \notin {"top", "lookup"}) =>
                  ppc = "raised" /\ p_exc = "Exception"

\* the second event is of an unknown kind and the session ended there, after
\* the first event was dispatched
C8_Witness ==
    /\ Len(data) = 2
    /\ UnknownKind(data[2])
    /\ index = 2
    /\ ppc = "raised"
    /\ g_dispatched = <<1>>

\* C9: play_actions returns to its caller with a termination reason instead
\* of letting an exception propagate out of the call.
C9_FailuresAreResults ==
    ppc # "raised"

\* no keyDown call on the sink lacks a later keyUp call for the same key
NoKeyHeld(calls) ==
    \A i \in 1..Len(calls) :
        calls[i].op = "keyDown" =>
            \E j \in 1..Len(calls) :
                j > i /\ calls[j].op = "keyUp" /\ calls[j].key = calls[i].key

\* C10: for a recording in which each keyDown has a later keyUp for the same
\* key, when play_actions ends by exhausting the events or by the escape
\* sentinel, no key has received a keyDown at the sink without a later keyUp.
C10_NoStuckKeys ==
    (ppc = "done" /\ NoDanglingKeyDown(data)) => NoKeyHeld(sink)

(***************************************************************************)
(* Further claims about the recorder                                       *)
(***************************************************************************)
\* C11: in every reachable recorder log the time of each entry is greater
\* than or equal to the time of the entry before it.
C11_RecordedTimesOrdered ==
    \A i \in Entries(saved_inputs) :
        i > 1 => saved_inputs[i].time >= saved_inputs[i - 1].time

\* C12: once a release of the exit key has set the exit signal, a keyUp
\* entry for the exit key is in the log; the main thread leaves its wait only
\* with the signal set, runs cleanup once over keys_to_release and goes on to
\* stop the listeners and return only when cleanup is through; and the main
\* thread is never stopped by an exception on the way, so that with the
\* signal set run_listeners() can always take its next step until it has
\* returned.
C12_ExitKeyTerminatesAfterCleanup ==
    /\ exit_event =>
          \E i \in Entries(saved_inputs) :
              /\ saved_inputs[i].type = KEY_UP
              /\ saved_inputs[i].button = stringify_key(EXIT_KEY)
    /\ pc["main"] # "wait" => exit_event
    /\ pc["main"] \in {"stop_ms", "returned"} => todo = {}
    /\ pc["main"] # "crashed"

\* the keyboard thread is inside toggle_pause, pausing / resuming
Pausing == pc["kb"] = "tp_flag"
Resuming == pc["kb"] \in {"tr_clear", "tr_flag"}

\* C13: the pause key is control only.  No entry of the log carries the
\* pause key, no callback is building one, and the pause key is never in
\* pressed_keys; a press of the pause key builds no entry, and when it has
\* been processed is_paused has flipped once: outside toggle_pause the flag
\* is the parity of the presses of the pause key.
C13_PauseKeyIsControlOnly ==
    /\ \A i \in Entries(saved_inputs) :
          saved_inputs[i].button # stringify_key(PAUSE_KEY)
    /\ \A t \in Threads : cur[t] # NoEvent => cur[t].key # PAUSE_KEY
    /\ PAUSE_KEY \notin pressed_keys
    /\ (Pausing \/ Resuming) => cur["kb"] = NoEvent
    /\ Pausing => (~is_paused /\ g_paused)
    /\ Resuming => (is_paused /\ ~g_paused)
    /\ ~(Pausing \/ Resuming) => is_paused = g_paused

\* the pause key is pressed a second time, with an entry in the log and a
\* key held
C13_Witness ==
    /\ pc["kb"] = "tr_flag"
    /\ saved_inputs # <<>>
    /\ pressed_keys # {}

\* C14: no entry is appended to saved_inputs at a moment when is_paused is
\* true (g_log holds, per entry, the value of is_paused at its append).
C14_NothingRecordedWhilePaused ==
    \A i \in Entries(saved_inputs) : ~g_log[i].paused

\* C15: no callback observes a toggle that is only partly applied: a thread
\* that has read is_paused as true inside elapsed_time (and is about to read
\* pause_start_time) never finds pause_start_time already cleared, and no
\* thread other than the toggling one stands between its reads of the pause
\* state while toggle_pause is between its writes.
C15_PauseStateUnderOneLock ==
    /\ \A t \in Threads : pc[t] = "et_ps" => pause_start_time # NoneT
    /\ \A t \in Threads \ {"kb"} :
          pc[t] \in {"et_ps", "et_tot"} => ~(Pausing \/ Resuming)

(***************************************************************************)
(* Further claims about the player                                         *)
(***************************************************************************)
\* the playback thread leaves wait_if_paused at one of its three call sites
WaitReturns ==
    \/ ppc = "top" /\ ppc' = "lookup"
    \/ ppc = "handler" /\ ppc' = "dispatch"
    \/ ppc = "delay" /\ ppc' = "slice"

\* play_actions has ended, by returning or by an exception
Ended == ppc \in {"done", "raised"}

\* C16: no resume is lost.  The playback thread is inside wait() only while
\* the player is Paused (a toggle to Active wakes it in the same critical
\* section); wait_if_paused returns only in a step that finds is_paused
\* false with the lock free; and under fair scheduling, if the pause state
\* ends up Active and stays Active, play_actions ends.
C16_NoLostResume ==
    /\ [](in_wait => p_is_paused)
    /\ [][WaitReturns => (~p_is_paused /\ pause_lock = "none" /\ ~in_wait)]_vars
    /\ (<>[](~p_is_paused)) => <>Ended

\* at the top of the first iteration the playback thread was blocked in
\* wait() while time passed, the player was toggled back to Active, and the
\* thread has left wait_if_paused
C16_Witness ==
    /\ index = 1
    /\ ppc = "lookup"
    /\ since > 0
    /\ ~p_is_paused

\* C17: every dispatch and every sleep slice is preceded by a pause check,
\* so once the player has become Paused the playback thread begins at most
\* one further dispatch or sleep slice (the one whose check it had already
\* passed) before it blocks; and a slice is a sleep of at most SLICE, with
\* its overrun, never the whole delay in one step.
C17_PauseHonouredWithinOneStep ==
    /\ g_steps <= 1
    /\ ppc \in {"slice", "sleeping"} =>
          SliceLength(slept, Elapsed(index)) <= SLICE
    /\ ppc = "sleeping" => since <= SLICE + MaxOver

\* the player became Paused after the playback thread had passed the check
\* before a sleep slice; the thread slept that one slice of a longer delay
\* and is now blocked in wait_if_paused
C17_Witness ==
    /\ p_is_paused
    /\ g_steps = 1
    /\ ppc = "delay"
    /\ in_wait
    /\ slept > 0
    /\ slept < Elapsed(index)

\* the toggle of this step takes the player from Paused to Active / from
\* Active to Paused
ToActive == p_is_paused /\ ~p_is_paused'
ToPaused == ~p_is_paused /\ p_is_paused'

\* the handler of toggle_pause returns in this step
HandlerReturns == hpc # "idle" /\ hpc' = "idle"

\* C18 as stated: the handler of a toggle from Paused to Active (was_paused
\* is false in it) enforces the fixed refractory delay, sleep(3), before it
\* returns and the next toggle can take effect.
C18_RefractoryDelayAfterResume ==
    [][(HandlerReturns /\ ~was_paused) => hpc = "sleep3"]_vars

\* C18 as amended: a toggle from Paused to Active wakes the playback thread
\* and starts the resume countdown, once, inside the lock; the countdown is
\* started by nothing else; while it runs the lock is held and no toggle
\* takes effect; the handler then returns without the fixed delay.  The
\* fixed delay, sleep(3), follows a toggle from Active to Paused.
C18_ResumeCountdownOncePerTransition ==
    /\ [](hpc = "countdown" => (pause_lock = "hotkey" /\ ~p_is_paused))
    /\ [][/\ (ToActive =>
                 (/\ hpc = "idle"
                  /\ hpc' = "countdown"
                  /\ pause_lock' = "hotkey"
                  /\ ~in_wait'))
           /\ ((hpc # "countdown" /\ hpc' = "countdown") => ToActive)
           /\ (hpc = "countdown" =>
                 (/\ p_is_paused' = p_is_paused
                  /\ hpc' \in {"countdown", "idle"}))
           /\ (ToPaused => (hpc = "idle" /\ hpc' = "sleep3"))
           /\ ((hpc # "sleep3" /\ hpc' = "sleep3") => ToPaused)]_vars

\* the playback thread was blocked at the top of the first iteration while
\* time passed; a toggle to Active has woken it and the resume countdown is
\* running under the lock
C18_Witness ==
    /\ hpc = "countdown"
    /\ pause_lock = "hotkey"
    /\ index = 1
    /\ ppc = "top"
    /\ since > 0
    /\ ~in_wait

\* C19: a call on the sink that fails never ends the session: play_actions
\* is not left by the exception of a failed injection call, and goes on to
\* the following events.
C19_SinkFailureDoesNotEndPlayback ==
    ~(ppc = "raised" /\ p_exc = "SinkError")

\* the key names of utils/key_mappings.py for the identifiers of the model,
\* written out; any other identifier stands for itself
Translated(b) ==
    IF b = "Key.esc" THEN "esc"
    ELSE IF b = "Key.shift" THEN "shift"
    ELSE IF b = "Key.pause" THEN "pause"
    ELSE IF b = "Key.delete" THEN "delete"
    ELSE b

\* the event handed to a handler last
LastDispatched == data[g_dispatched[Len(g_dispatched)]]

\* C20: key translation is a lookup with identity fallback.  Whenever a key
\* event has been dispatched and its call did not fail, the sink's last call
\* is the event's operation on the table's name for the recorded identifier
\* when the table has one and on the identifier itself otherwise; the
\* translation leaves no trace but that call (the recording and the pause
\* state are those of the step before, see Dispatch).
C20_KeyTranslationIsLookup ==
    (/\ g_dispatched # <<>>
     /\ p_exc # "SinkError"
     /\ LastDispatched.type \in {KEY_DOWN, KEY_UP})
    => /\ sink # <<>>
       /\ sink[Len(sink)].op = LastDispatched.type
       /\ sink[Len(sink)].key = Translated(LastDispatched.button)

\* a key with no entry in the table and then a key with one were played:
\* the sink received 'a' as it was recorded and 'shift' for 'Key.shift'
C20_Witness ==
    /\ Len(sink) = 2
    /\ data[1].button = "a"
    /\ sink[1].key = "a"
    /\ data[2].button = "Key.shift"
    /\ sink[2].key = "shift"
    /\ p_exc = "none"

(***************************************************************************)
(* Frame and lifetime claims                                               *)
(***************************************************************************)
\* C21: a discarded press changes nothing.  In a step in which on_press
\* receives a key other than the pause key while the recorder is paused, or
\* a key of the ignore list, or a key already in pressed_keys, the callback
\* returns at once (the keyboard thread is idle again and builds no event)
\* and pressed_keys, saved_inputs, is_paused, pause_start_time,
\* total_pause_time and the exit signal are what they were.
C21_DiscardedPressChangesNothing ==
    [][\A key \in Keys \ {PAUSE_KEY} :
          (/\ OnPress(key)
           /\ (is_paused \/ key \in IGNORED_KEYS \/ key \in pressed_keys))
          => (/\ pc'["kb"] = "idle"
              /\ cur' = cur
              /\ UNCHANGED <<pressed_keys, saved_inputs, is_paused,
                             pause_start_time, total_pause_time,
                             exit_event>>)]_vars

\* the key 'a' is held and recorded, the recorder is paused and the keyboard
\* listener is ready for the next callback: a press of 'a' or of any other
\* key but the pause key is discarded here, and leaves this state as it is
C21_Witness ==
    /\ pc["kb"] = "idle"
    /\ kb_running
    /\ is_paused
    /\ KeyA \in pressed_keys
    /\ saved_inputs # <<>>
    /\ Len(saved_inputs) < MaxLog

\* C22: pause listener lifetime.  The pause hotkey is registered before the
\* first event is processed and stays registered while events are processed,
\* and whenever play_actions has ended, by exhausting the events, by the
\* escape sentinel or by a fatal error, the hotkey is no longer registered.
C22_PauseListenerLifetime ==
    /\ ppc \in {"top", "lookup", "handler", "dispatch", "delay", "slice",
                "sleeping", "finish"} => hotkey
    /\ Ended => ~hotkey

\* the log entry of a click at pos with button b, less its time
IsClickEntry(e, pos, b) ==
    /\ e.type = CLICK
    /\ e.button = b
    /\ e.pos = pos
    /\ e.scroll_direction = NoScroll

\* C23: clicks are recorded on the release edge only.  The button-down
\* callback appends nothing and starts no entry; the release callback, when
\* the recorder is not paused, starts one click entry with the position and
\* the button it was given; that entry is appended once, as it was started,
\* and the mouse thread is then through with it; no click entry comes from
\* anywhere else; and the callback is cut short only in the branch of
\* elapsed_time that is taken when is_paused is read as true.
C23_ClickOnReleaseEdgeOnly ==
    [][/\ \A pos \in Positions, b \in Buttons :
             OnClick(pos, b, TRUE) => UNCHANGED <<saved_inputs, pc, cur>>
       /\ \A pos \in Positions, b \in Buttons :
             (OnClick(pos, b, FALSE) /\ ~is_paused) =>
                (/\ pc'["ms"] = "et_now"
                 /\ cur'["ms"].type = CLICK
                 /\ cur'["ms"].pos = pos
                 /\ cur'["ms"].button = ButtonStr(b)
                 /\ saved_inputs' = saved_inputs)
       /\ ((cur["ms"].type = CLICK /\ cur'["ms"] # cur["ms"]) =>
              (/\ Len(saved_inputs') = Len(saved_inputs) + 1
               /\ IsClickEntry(saved_inputs'[Len(saved_inputs')],
                               cur["ms"].pos, cur["ms"].button)
               /\ SubSeq(saved_inputs', 1, Len(saved_inputs)) = saved_inputs
               /\ cur'["ms"] = NoEvent
               /\ pc'["ms"] = "idle"))
       /\ ((/\ Len(saved_inputs') > Len(saved_inputs)
            /\ saved_inputs'[Len(saved_inputs')].type = CLICK) =>
              (cur["ms"].type = CLICK /\ pc["ms"] = "append"))
       /\ ((pc'["ms"] = "crashed" /\ pc["ms"] # "crashed") =>
              pc["ms"] = "et_ps")
       /\ ((pc'["ms"] = "et_ps" /\ pc["ms"] # "et_ps") => is_paused)]_vars

\* a release of the left button at (10, 20) was recorded: the log holds its
\* click entry and the mouse thread is idle again
C23_Witness ==
    /\ pc["ms"] = "idle"
    /\ cur["ms"] = NoEvent
    /\ \E i \in Entries(saved_inputs) :
          IsClickEntry(saved_inputs[i], <<10, 20>>, "Button.left")

\* the calls a scroll event is to make on the sink, case by case
ScrollCalls(ev) ==
    LET dx == ev.scroll_direction.dx
        dy == ev.scroll_direction.dy
        move == [op |-> "moveTo", key |-> "", x |-> ev.pos[1],
                 y |-> ev.pos[2], amount |-> 0]
        vert == [op |-> "scroll", key |-> "", x |-> 0, y |-> 0,
                 amount |-> dy * 120]
        horiz == [op |-> "hscroll", key |-> "", x |-> 0, y |-> 0,
                  amount |-> dx * 120]
    IN  CASE dx = 0 /\ dy = 0 -> <<move>>
          [] dx = 0 /\ dy # 0 -> <<move, vert>>
          [] dx # 0 /\ dy = 0 -> <<move, horiz>>
          [] OTHER -> <<move, vert, horiz>>

\* the calls the first n events of a recording of scroll events are to make
RECURSIVE ScrollCallsOfFirst(_)
ScrollCallsOfFirst(n) ==
    IF n = 0 THEN <<>>
    ELSE ScrollCallsOfFirst(n - 1) \o ScrollCalls(data[n])

\* C24: scroll dispatch.  For a recording of scroll events the sink has
\* received, for every dispatched event in turn, first the move of the
\* cursor to the event's position, then a vertical scroll of dy * 120 only
\* when dy is not 0, then a horizontal scroll of dx * 120 only when dx is
\* not 0, and only the move when both are 0 (the calls of the last
\* dispatched event are cut short only when one of them failed).
C24_ScrollDispatch ==
    (\A i \in 1..Len(data) : data[i].type = SCROLL) =>
        LET n == Len(g_dispatched)
        IN  /\ n = 0 => sink = <<>>
            /\ n > 0 =>
                 \E m \in 0..Len(ScrollCalls(data[n])) :
                    /\ sink = ScrollCallsOfFirst(n - 1)
                                \o SubSeq(ScrollCalls(data[n]), 1, m)
                    /\ p_exc # "SinkError" => m = Len(ScrollCalls(data[n]))

\* a scroll with no wheel movement and then a horizontal one were played:
\* the sink received the move alone, then a move and hscroll(-120)
C24_Witness ==
    /\ Len(data) = 2
    /\ data[1].scroll_direction = [dx |-> 0, dy |-> 0]
    /\ data[2].scroll_direction = [dx |-> -1, dy |-> 0]
    /\ g_dispatched = <<1, 2>>
    /\ p_exc = "none"
    /\ Len(sink) = 3
    /\ sink[1].op = "moveTo"
    /\ sink[2].op = "moveTo"
    /\ sink[3].op = "hscroll"
    /\ sink[3].amount = -120

\* the keys that have received a keyDown and no keyUp after it
HeldKeys(calls) ==
    {calls[i].key : i \in {i \in 1..Len(calls) :
        /\ calls[i].op = "keyDown"
        /\ ~\E j \in 1..Len(calls) :
              j > i /\ calls[j].op = "keyUp" /\ calls[j].key = calls[i].key}}

\* C25: force-release in the absolute-offset player.  The sink never
\* receives a second keyDown for a key it holds; while the loop runs
\* pressed_keys is the set of keys the sink holds; and when play_actions
\* ends by exhausting the events or by the escape sentinel, cleanup() has
\* called keyUp for every key that had received a keyDown without a later
\* keyUp (a key is still held then only if that very call failed), and
\* pressed_keys is empty.
C25_ForceReleaseInOldPlayer ==
    /\ \A i, j \in 1..Len(sink) :
          (/\ i < j
           /\ sink[i].op = "keyDown"
           /\ sink[j].op = "keyDown"
           /\ sink[i].key = sink[j].key)
          => \E k \in 1..Len(sink) :
                /\ i < k
                /\ k < j
                /\ sink[k].op = "keyUp"
                /\ sink[k].key = sink[i].key
    /\ ppc \in {"top", "busy", "lookup", "handler", "dispatch", "cleanup"}
          => p_pressed_keys = HeldKeys(sink)
    /\ ppc \in {"finish", "done"} =>
          /\ g_stop \in {"exhausted", "escape"}
          /\ p_pressed_keys = {}
          /\ HeldKeys(sink) \subseteq g_released

\* 'a' was pressed twice in the recording and shift once, none released:
\* the sink received one keyDown for each key, and cleanup() released both
C25_Witness ==
    /\ Len(data) = 3
    /\ data[1].type = KEY_DOWN /\ data[1].button = "a"
    /\ data[2].type = KEY_DOWN /\ data[2].button = "a"
    /\ data[3].type = KEY_DOWN /\ data[3].button = "Key.shift"
    /\ ppc = "done"
    /\ Len(sink) = 4
    /\ HeldKeys(sink) = {}
    /\ g_released = {"a", "shift"}

\* C26: the exit key is inert while paused.  A release of the exit key that
\* on_release receives while is_paused is true, from the keyboard listener
\* or from cleanup(), returns at once: nothing is appended, pressed_keys
\* and the exit signal are what they were.  The exit signal is set only in
\* the Active state (is_paused is false, no toggle is under way and the
\* pause key was pressed an even number of times), and once set it is never
\* cleared.
C26_ExitKeyInertWhilePaused ==
    [][/\ ((OnRelease(EXIT_KEY) /\ is_paused) =>
              (/\ pc'["kb"] = "idle"
               /\ cur' = cur
               /\ UNCHANGED <<saved_inputs, pressed_keys, exit_event>>))
       /\ ((cleanup /\ is_paused) =>
              (/\ pc'["main"] = "loop"
               /\ cur' = cur
               /\ UNCHANGED <<saved_inputs, pressed_keys, exit_event>>))
       /\ ((~exit_event /\ exit_event') =>
              (/\ ~is_paused
               /\ ~is_paused'
               /\ ~g_paused
               /\ ~(Pausing \/ Resuming)
               /\ cur["kb"].type = KEY_UP
               /\ cur["kb"].key = EXIT_KEY))
       /\ (exit_event => exit_event')]_vars

\* the exit key was pressed and is held, the recorder has been paused since
\* and the keyboard listener is ready for the next callback: a release of
\* the exit key is discarded here and the session goes on
C26_Witness ==
    /\ pc["kb"] = "idle"
    /\ kb_running
    /\ is_paused
    /\ EXIT_KEY \in pressed_keys
    /\ ~exit_event
    /\ pc["main"] = "wait"
    /\ Len(saved_inputs) < MaxLog

\* the playback thread stands at a call of wait_if_paused it has to pass
\* before its next dispatch or sleep slice
AtPauseCheck ==
    \/ ppc \in {"top", "handler"}
    \/ ppc = "delay" /\ LoopContinues(slept, Elapsed(index))

\* C27: resume is gated by the countdown.  The resume countdown runs with
\* pause_lock held by the hotkey thread; a toggle from Paused to Active
\* wakes a playback thread that is inside wait() and leaves it where it
\* stands; while the countdown runs no call of wait_if_paused returns, so a
\* playback thread that stands at its pause check stays there, the sink
\* receives nothing from it and no sleep slice begins; it goes on only in a
\* step taken with the lock free.  The 3-second sleep after a toggle into
\* Paused runs with the lock free.
C27_ResumeGatedByCountdown ==
    /\ [](hpc = "countdown" => pause_lock = "hotkey")
    /\ [](hpc = "sleep3" => pause_lock = "none")
    /\ [][/\ ((ToActive /\ in_wait) =>
                 (/\ ~in_wait'
                  /\ AtPauseCheck
                  /\ ppc' = ppc
                  /\ hpc' = "countdown"))
           /\ (hpc = "countdown" => ~WaitReturns)
           /\ ((hpc = "countdown" /\ AtPauseCheck) =>
                 (/\ ppc' = ppc
                  /\ index' = index
                  /\ sink' = sink
                  /\ g_dispatched' = g_dispatched
                  /\ slept' = slept))
           /\ (WaitReturns => (hpc # "countdown" /\ pause_lock = "none"))]_vars

\* the playback thread was blocked before the dispatch of the first event
\* while time passed, a toggle to Active has woken it, and it stands at the
\* pause check while the countdown runs under the lock
C27_Witness ==
    /\ hpc = "countdown"
    /\ pause_lock = "hotkey"
    /\ ppc = "handler"
    /\ index = 1
    /\ ~in_wait
    /\ since > 0
    /\ sink = <<>>

\* C28: a decreasing time aborts playback after the current event.  If
\* event i+1 has a smaller time than event i, the loop never gets past
\* event i: no later event is dispatched, no wait between the two is begun,
\* and once event i has been dispatched (its calls made) the session has
\* ended in the error of handle_delay with nothing slept.  If the two times
\* are equal, the delay after event i sleeps no slice and raises no error,
\* and the loop goes on to event i+1 with nothing slept.
C28_DecreasingTimeAborts ==
    \A i \in 1..(Len(data) - 1) :
        /\ data[i + 1].time < data[i].time =>
              /\ index <= i
              /\ \A j \in Dispatched : j <= i
              /\ index = i => ppc \notin {"delay", "slice", "sleeping"}
              /\ (i \in Dispatched /\ p_exc # "SinkError") =>
                    /\ ppc = "raised"
                    /\ p_exc = "ValueError"
                    /\ index = i
                    /\ slept = 0
                    /\ g_slept = 0
        /\ data[i + 1].time = data[i].time =>
              /\ index = i =>
                    /\ ppc \notin {"slice", "sleeping"}
                    /\ ~(ppc = "raised" /\ p_exc = "ValueError")
              /\ (/\ index = i + 1
                  /\ ppc \in {"top", "lookup", "handler", "dispatch"}) =>
                    /\ slept = 0
                    /\ g_slept = 0

\* the second event is earlier than the first: the first was dispatched,
\* handle_delay raised, and the second was never played
C28_Witness ==
    /\ Len(data) = 2
    /\ data[2].time < data[1].time
    /\ g_dispatched = <<1>>
    /\ sink # <<>>
    /\ ppc = "raised"
    /\ p_exc = "ValueError"

====
